---- MODULE Spec2Model ----
(***************************************************************************)
(* The timeline layout of kovipu/purtsi.fi: three copies of the SvgTimeline *)
(* component (src/src/components/Timeline.tsx, src/unnamed/part_000 and    *)
(* src/tailwind.config.js), their date arithmetic, the domain resolution,  *)
(* the date -> x scale, the year ruler, the lane stacking and the item     *)
(* primitives.                                                             *)
(*                                                                         *)
(* Time.  A JavaScript Date is its time value, here a day number (days     *)
(* since 1970-01-01, negative before it) and a second of that day, in UTC  *)
(* (the program counts milliseconds; every instant it projects is a whole  *)
(* second, and the one finer instant it builds, endOfYear's 23:59:59.999,  *)
(* is the last instant of 31 December on the program's clock and is the    *)
(* last second, 23:59:59, on the model's clock).  An Invalid Date has the  *)
(* time value InvalidDate.  The host's time zone is a history of offsets   *)
(* east of UTC: local mean time at first, the zone's recorded changes      *)
(* until 2006, and from 2007 on its standard offset with its daylight      *)
(* saving rule; the getters and constructors of Date use the offset in     *)
(* force at the instant they are applied to.                               *)
(*                                                                         *)
(* Numbers.  A JavaScript number is an exact rational i + n/d (0 <= n < d), *)
(* or NaN, or one of the two infinities; the program's floating point      *)
(* rounding is not modelled.  Whole numbers that are never NaN (the props,  *)
(* the entries of yearTicks, the lane geometry) are integers.              *)
(***************************************************************************)
EXTENDS Integers, Sequences, FiniteSets, TLC

VARIABLES version, timeZone, data, lanes, laneHeight, laneGap, pxPerMonth,
          padMonths, pc, domain, totalMonths, yearTicks, height, innerWidth,
          tickX, laneTops, laneHeights, prims

vars == <<version, timeZone, data, lanes, laneHeight, laneGap, pxPerMonth,
          padMonths, pc, domain, totalMonths, yearTicks, height, innerWidth,
          tickX, laneTops, laneHeights, prims>>

(***************************************************************************)
(* JavaScript numbers: exact rationals i + n/d, NaN and the infinities      *)
(***************************************************************************)
RECURSIVE GCD(_, _)
GCD(a, b) == IF b = 0 THEN a ELSE GCD(b, a % b)

\* NaN: what the getters of an Invalid Date return, and whatever is
\* computed from it.
QNaN == [i |-> 0, n |-> 0, d |-> 0]

\* Infinity (sign 1) and -Infinity (sign -1).
QInf(sign) == [i |-> sign, n |-> 0, d |-> 0]

QIsNaN(q) == q.d = 0 /\ q.i = 0

QIsFinite(q) == q.d > 0

\* The rational i + n/d in lowest terms, for d > 0 and any integer n.
QNorm(i, n, d) ==
    LET ii == i + (n \div d)
        nn == n % d
        g  == GCD(d, nn)
    IN  [i |-> ii, n |-> nn \div g, d |-> d \div g]

\* The whole number k.
QInt(k) == [i |-> k, n |-> 0, d |-> 1]

\* 1, 0 or -1 as a number, or the integer k, is positive, zero or negative.
QSign(q) == IF q.i > 0 \/ (q.i = 0 /\ q.n > 0) THEN 1 ELSE IF q.i < 0 THEN -1 ELSE 0

IntSign(k) == IF k > 0 THEN 1 ELSE IF k < 0 THEN -1 ELSE 0

\* -q
QNeg(q) == IF QIsFinite(q) THEN QNorm(-q.i, -q.n, q.d) ELSE [i |-> -q.i, n |-> 0, d |-> 0]

\* The least common denominator of two rationals.
QLcd(a, b) == (a.d \div GCD(a.d, b.d)) * b.d

\* a + b: the sum of two opposite infinities is NaN.
QAdd(a, b) ==
    IF QIsNaN(a) \/ QIsNaN(b) THEN QNaN
    ELSE IF QIsFinite(a) /\ QIsFinite(b)
         THEN LET l == QLcd(a, b)
              IN  QNorm(a.i + b.i, a.n * (l \div a.d) + b.n * (l \div b.d), l)
    ELSE IF QIsFinite(b) THEN a
    ELSE IF QIsFinite(a) \/ a = b THEN b
    ELSE QNaN

\* a - b
QSub(a, b) ==
    IF QIsFinite(a) /\ QIsFinite(b)
    THEN LET l == QLcd(a, b)
         IN  QNorm(a.i - b.i, a.n * (l \div a.d) - b.n * (l \div b.d), l)
    ELSE QAdd(a, QNeg(b))

\* q * k for an integer k: an infinity times 0 is NaN.
QTimes(q, k) ==
    IF QIsNaN(q) THEN QNaN
    ELSE IF QIsFinite(q) THEN QNorm(q.i * k, q.n * k, q.d)
    ELSE IF k = 0 THEN QNaN
    ELSE QInf(q.i * IntSign(k))

\* The numerator of a rational over its denominator d.
QNumerator(q) == q.i * q.d + q.n

\* a / b: 0 / 0 and a quotient of two infinities are NaN, another number
\* over 0 is an infinity.
QDiv(a, b) ==
    IF QIsNaN(a) \/ QIsNaN(b) THEN QNaN
    ELSE IF ~QIsFinite(a) THEN (IF QIsFinite(b) THEN QInf(a.i * (IF QSign(b) < 0 THEN -1 ELSE 1))
                                ELSE QNaN)
    ELSE IF ~QIsFinite(b) THEN QInt(0)
    ELSE IF QSign(b) = 0 THEN (IF QSign(a) = 0 THEN QNaN ELSE QInf(QSign(a)))
    ELSE QNorm(0, QSign(b) * QNumerator(a) * b.d, QSign(b) * QNumerator(b) * a.d)

\* a <= b and a < b as JavaScript compares numbers: false on NaN.
QLeq(a, b) ==
    /\ ~QIsNaN(a)
    /\ ~QIsNaN(b)
    /\ IF QIsFinite(a) /\ QIsFinite(b)
       THEN \/ a.i < b.i
            \/ a.i = b.i /\ a.n * b.d <= b.n * a.d
       ELSE a = QInf(-1) \/ b = QInf(1)

QLt(a, b) ==
    /\ ~QIsNaN(a)
    /\ ~QIsNaN(b)
    /\ IF QIsFinite(a) /\ QIsFinite(b)
       THEN \/ a.i < b.i
            \/ a.i = b.i /\ a.n * b.d < b.n * a.d
       ELSE a # b /\ (a = QInf(-1) \/ b = QInf(1))

\* Math.max(a, b): NaN when either argument is NaN.
QMax(a, b) == IF QIsNaN(a) \/ QIsNaN(b) THEN QNaN ELSE IF QLeq(b, a) THEN a ELSE b

(***************************************************************************)
(* The Gregorian calendar behind Date's getters and constructors           *)
(***************************************************************************)
IsLeap(y) == y % 4 = 0 /\ (y % 100 # 0 \/ y % 400 = 0)

\* m is a month index 0..11, as Date.getMonth() counts.
DaysInMonth(y, m) ==
    IF m = 1 THEN (IF IsLeap(y) THEN 29 ELSE 28)
    ELSE IF m \in {3, 5, 8, 10} THEN 30 ELSE 31

LeapsThrough(y) == (y \div 4) - (y \div 100) + (y \div 400)

\* Days from 1970-01-01 to the first of January of year y.
DaysBeforeYear(y) == 365 * (y - 1970) + LeapsThrough(y - 1) - LeapsThrough(1969)

\* Days from the first of January to the first of month m in a common year.
CommonYearDays == <<0, 31, 59, 90, 120, 151, 181, 212, 243, 273, 304, 334, 365>>

\* Days from the first of January of year y to the first of its month m
\* (m = 12: to the first of January of the next year).
DaysBeforeMonth(y, m) == CommonYearDays[m + 1] + (IF m > 1 /\ IsLeap(y) THEN 1 ELSE 0)

\* From an estimate y, the year that holds day number `day`: down while the
\* year starts after the day, up while the next year starts on or before it.
RECURSIVE YearFrom(_, _)
YearFrom(y, day) ==
    IF DaysBeforeYear(y) > day THEN YearFrom(y - 1, day)
    ELSE IF DaysBeforeYear(y + 1) <= day THEN YearFrom(y + 1, day)
    ELSE y

\* The days of the 400 years after which the calendar repeats.
DaysPerCycle == DaysBeforeYear(2370)

\* The year that holds day number `day` (days since 1970-01-01, negative
\* before 1970): estimated from the mean length of a year, then corrected.
YearOfDay(day) ==
    YearFrom(1970 + 400 * (day \div DaysPerCycle)
                  + ((((day % DaysPerCycle) + 2) * 400) \div DaysPerCycle), day)

\* The month index of day number `day` of year y: the last month that
\* starts on or before it (an estimate from 31-day months, stepped up at
\* most once).
MonthInYear(y, day) ==
    LET doy == day - DaysBeforeYear(y)
        m   == doy \div 31
    IN  IF DaysBeforeMonth(y, m + 1) <= doy THEN m + 1 ELSE m

MonthOfDay(day) == MonthInYear(YearOfDay(day), day)

\* The day of the month, from 1, of day number `day` of year y.
DateInYear(y, day) == day - DaysBeforeYear(y) - DaysBeforeMonth(y, MonthInYear(y, day)) + 1

DateOfDay(day) == DateInYear(YearOfDay(day), day)

(***************************************************************************)
(* Time values                                                             *)
(***************************************************************************)
SecondsPerHour == 60 * 60

SecondsPerDay == 24 * SecondsPerHour

\* The time value of an Invalid Date.
InvalidDate == [day |-> 0, sec |-> -1]

IsInvalid(t) == t.sec < 0

\* The largest time value of a Date: 100,000,000 days after the epoch (and
\* the smallest: as many days before it).
MaxDay == 100000000

\* The instant `sec` seconds after the start of day `day`.
Shift(day, sec) == [day |-> day + (sec \div SecondsPerDay), sec |-> sec % SecondsPerDay]

\* TimeClip: an instant outside the range of Date is an Invalid Date.
TimeClip(t) ==
    IF t.day < -MaxDay \/ t.day > MaxDay \/ (t.day = MaxDay /\ t.sec > 0)
    THEN InvalidDate
    ELSE t

\* a <= b and a < b on time values as numbers: false on an Invalid Date.
TimeLeq(a, b) ==
    /\ ~IsInvalid(a)
    /\ ~IsInvalid(b)
    /\ (a.day < b.day \/ (a.day = b.day /\ a.sec <= b.sec))

TimeLt(a, b) ==
    /\ ~IsInvalid(a)
    /\ ~IsInvalid(b)
    /\ (a.day < b.day \/ (a.day = b.day /\ a.sec < b.sec))

\* +b - +a, in seconds.
Elapsed(a, b) ==
    IF IsInvalid(a) \/ IsInvalid(b) THEN QNaN
    ELSE QInt((b.day - a.day) * SecondsPerDay + (b.sec - a.sec))

(***************************************************************************)
(* The host's time zone                                                    *)
(***************************************************************************)
\* The zones a host may run in.
NewYork == "America/New_York"
UTC == "UTC"
Helsinki == "Europe/Helsinki"
Kolkata == "Asia/Kolkata"

Zones == {NewYork, UTC, Helsinki, Kolkata}

\* The instants: a day number and a second of that day.
Instants == [day : Int, sec : Int]

\* The changes of a zone's offset before 2007, in the order they happened:
\* <<day, second of that day (UTC), offset east of UTC in seconds from then
\* on>>.
NewYorkChanges ==
    <<<<-31455, 61200, -18000>>, <<-18904, 25200, -14400>>, <<-18694, 21600, -18000>>,
       <<-18540, 25200, -14400>>, <<-18330, 21600, -18000>>, <<-18176, 25200, -14400>>,
       <<-17959, 21600, -18000>>, <<-17784, 25200, -14400>>, <<-17630, 21600, -18000>>,
       <<-17413, 25200, -14400>>, <<-17266, 21600, -18000>>, <<-17049, 25200, -14400>>,
       <<-16895, 21600, -18000>>, <<-16685, 25200, -14400>>, <<-16531, 21600, -18000>>,
       <<-16321, 25200, -14400>>, <<-16167, 21600, -18000>>, <<-15957, 25200, -14400>>,
       <<-15803, 21600, -18000>>, <<-15593, 25200, -14400>>, <<-15439, 21600, -18000>>,
       <<-15222, 25200, -14400>>, <<-15068, 21600, -18000>>, <<-14858, 25200, -14400>>,
       <<-14704, 21600, -18000>>, <<-14494, 25200, -14400>>, <<-14340, 21600, -18000>>,
       <<-14130, 25200, -14400>>, <<-13976, 21600, -18000>>, <<-13766, 25200, -14400>>,
       <<-13612, 21600, -18000>>, <<-13395, 25200, -14400>>, <<-13248, 21600, -18000>>,
       <<-13031, 25200, -14400>>, <<-12877, 21600, -18000>>, <<-12667, 25200, -14400>>,
       <<-12513, 21600, -18000>>, <<-12303, 25200, -14400>>, <<-12149, 21600, -18000>>,
       <<-11939, 25200, -14400>>, <<-11785, 21600, -18000>>, <<-11575, 25200, -14400>>,
       <<-11421, 21600, -18000>>, <<-11204, 25200, -14400>>, <<-11057, 21600, -18000>>,
       <<-10840, 25200, -14400>>, <<-10686, 21600, -18000>>, <<-10476, 25200, -14400>>,
       <<-10322, 21600, -18000>>, <<-10188, 25200, -14400>>, <<-8859, 21600, -18000>>,
       <<-8649, 25200, -14400>>, <<-8495, 21600, -18000>>, <<-8285, 25200, -14400>>,
       <<-8131, 21600, -18000>>, <<-7921, 25200, -14400>>, <<-7767, 21600, -18000>>,
       <<-7557, 25200, -14400>>, <<-7403, 21600, -18000>>, <<-7186, 25200, -14400>>,
       <<-7039, 21600, -18000>>, <<-6822, 25200, -14400>>, <<-6668, 21600, -18000>>,
       <<-6458, 25200, -14400>>, <<-6304, 21600, -18000>>, <<-6094, 25200, -14400>>,
       <<-5940, 21600, -18000>>, <<-5730, 25200, -14400>>, <<-5576, 21600, -18000>>,
       <<-5366, 25200, -14400>>, <<-5177, 21600, -18000>>, <<-4995, 25200, -14400>>,
       <<-4813, 21600, -18000>>, <<-4631, 25200, -14400>>, <<-4449, 21600, -18000>>,
       <<-4267, 25200, -14400>>, <<-4085, 21600, -18000>>, <<-3903, 25200, -14400>>,
       <<-3721, 21600, -18000>>, <<-3539, 25200, -14400>>, <<-3350, 21600, -18000>>,
       <<-3168, 25200, -14400>>, <<-2986, 21600, -18000>>, <<-2804, 25200, -14400>>,
       <<-2622, 21600, -18000>>, <<-2440, 25200, -14400>>, <<-2258, 21600, -18000>>,
       <<-2076, 25200, -14400>>, <<-1894, 21600, -18000>>, <<-1712, 25200, -14400>>,
       <<-1523, 21600, -18000>>, <<-1348, 25200, -14400>>, <<-1159, 21600, -18000>>,
       <<-977, 25200, -14400>>, <<-795, 21600, -18000>>, <<-613, 25200, -14400>>,
       <<-431, 21600, -18000>>, <<-249, 25200, -14400>>, <<-67, 21600, -18000>>,
       <<115, 25200, -14400>>, <<297, 21600, -18000>>, <<479, 25200, -14400>>,
       <<668, 21600, -18000>>, <<850, 25200, -14400>>, <<1032, 21600, -18000>>,
       <<1214, 25200, -14400>>, <<1396, 21600, -18000>>, <<1466, 25200, -14400>>,
       <<1760, 21600, -18000>>, <<1879, 25200, -14400>>, <<2124, 21600, -18000>>,
       <<2306, 25200, -14400>>, <<2495, 21600, -18000>>, <<2670, 25200, -14400>>,
       <<2859, 21600, -18000>>, <<3041, 25200, -14400>>, <<3223, 21600, -18000>>,
       <<3405, 25200, -14400>>, <<3587, 21600, -18000>>, <<3769, 25200, -14400>>,
       <<3951, 21600, -18000>>, <<4133, 25200, -14400>>, <<4315, 21600, -18000>>,
       <<4497, 25200, -14400>>, <<4686, 21600, -18000>>, <<4861, 25200, -14400>>,
       <<5050, 21600, -18000>>, <<5232, 25200, -14400>>, <<5414, 21600, -18000>>,
       <<5596, 25200, -14400>>, <<5778, 21600, -18000>>, <<5960, 25200, -14400>>,
       <<6142, 21600, -18000>>, <<6303, 25200, -14400>>, <<6506, 21600, -18000>>,
       <<6667, 25200, -14400>>, <<6877, 21600, -18000>>, <<7031, 25200, -14400>>,
       <<7241, 21600, -18000>>, <<7395, 25200, -14400>>, <<7605, 21600, -18000>>,
       <<7766, 25200, -14400>>, <<7969, 21600, -18000>>, <<8130, 25200, -14400>>,
       <<8333, 21600, -18000>>, <<8494, 25200, -14400>>, <<8704, 21600, -18000>>,
       <<8858, 25200, -14400>>, <<9068, 21600, -18000>>, <<9222, 25200, -14400>>,
       <<9432, 21600, -18000>>, <<9593, 25200, -14400>>, <<9796, 21600, -18000>>,
       <<9957, 25200, -14400>>, <<10160, 21600, -18000>>, <<10321, 25200, -14400>>,
       <<10524, 21600, -18000>>, <<10685, 25200, -14400>>, <<10895, 21600, -18000>>,
       <<11049, 25200, -14400>>, <<11259, 21600, -18000>>, <<11413, 25200, -14400>>,
       <<11623, 21600, -18000>>, <<11784, 25200, -14400>>, <<11987, 21600, -18000>>,
       <<12148, 25200, -14400>>, <<12351, 21600, -18000>>, <<12512, 25200, -14400>>,
       <<12722, 21600, -18000>>, <<12876, 25200, -14400>>, <<13086, 21600, -18000>>,
       <<13240, 25200, -14400>>, <<13450, 21600, -18000>>>>

HelsinkiChanges ==
    <<<<-17778, 80411, 7200>>, <<-10136, 79200, 10800>>, <<-9952, 79200, 7200>>,
       <<4105, 0, 10800>>, <<4287, 0, 7200>>, <<4469, 0, 10800>>,
       <<4651, 0, 7200>>, <<4833, 3600, 10800>>, <<5015, 3600, 7200>>,
       <<5197, 3600, 10800>>, <<5386, 3600, 7200>>, <<5568, 3600, 10800>>,
       <<5750, 3600, 7200>>, <<5932, 3600, 10800>>, <<6114, 3600, 7200>>,
       <<6296, 3600, 10800>>, <<6478, 3600, 7200>>, <<6660, 3600, 10800>>,
       <<6842, 3600, 7200>>, <<7024, 3600, 10800>>, <<7206, 3600, 7200>>,
       <<7388, 3600, 10800>>, <<7577, 3600, 7200>>, <<7759, 3600, 10800>>,
       <<7941, 3600, 7200>>, <<8123, 3600, 10800>>, <<8305, 3600, 7200>>,
       <<8487, 3600, 10800>>, <<8669, 3600, 7200>>, <<8851, 3600, 10800>>,
       <<9033, 3600, 7200>>, <<9215, 3600, 10800>>, <<9397, 3600, 7200>>,
       <<9586, 3600, 10800>>, <<9796, 3600, 7200>>, <<9950, 3600, 10800>>,
       <<10160, 3600, 7200>>, <<10314, 3600, 10800>>, <<10524, 3600, 7200>>,
       <<10678, 3600, 10800>>, <<10895, 3600, 7200>>, <<11042, 3600, 10800>>,
       <<11259, 3600, 7200>>, <<11406, 3600, 10800>>, <<11623, 3600, 7200>>,
       <<11777, 3600, 10800>>, <<11987, 3600, 7200>>, <<12141, 3600, 10800>>,
       <<12351, 3600, 7200>>, <<12505, 3600, 10800>>, <<12722, 3600, 7200>>,
       <<12869, 3600, 10800>>, <<13086, 3600, 7200>>, <<13233, 3600, 10800>>,
       <<13450, 3600, 7200>>>>

KolkataChanges ==
    <<<<-42191, 65192, 21200>>, <<-36525, 65200, 19270>>, <<-23377, 67130, 19800>>,
       <<-10320, 66600, 23400>>, <<-10094, 63000, 19800>>, <<-9985, 66600, 23400>>,
       <<-8845, 63000, 19800>>>>

ZoneChanges(z) ==
    CASE z = NewYork  -> NewYorkChanges
      [] z = UTC      -> <<>>
      [] z = Helsinki -> HelsinkiChanges
      [] z = Kolkata  -> KolkataChanges

\* The offset of a zone before its first change: its local mean time.
LocalMeanTime(z) ==
    CASE z = NewYork  -> -(4 * SecondsPerHour + 56 * 60 + 2)
      [] z = UTC      -> 0
      [] z = Helsinki -> SecondsPerHour + 39 * 60 + 49
      [] z = Kolkata  -> 5 * SecondsPerHour + 53 * 60 + 28

\* The number of the changes c that happened up to the instant t: it lies
\* in lo..hi (a search by halving).
RECURSIVE ChangesUpTo(_, _, _, _)
ChangesUpTo(c, lo, hi, t) ==
    IF lo = hi THEN lo
    ELSE LET mid == (lo + hi + 1) \div 2
         IN  IF TimeLeq([day |-> c[mid][1], sec |-> c[mid][2]], t)
             THEN ChangesUpTo(c, mid, hi, t)
             ELSE ChangesUpTo(c, lo, mid - 1, t)

\* The offset after the first k of the changes c; lmt is the offset before
\* the first.
OffsetAfter(c, k, lmt) == IF k = 0 THEN lmt ELSE c[k][3]

\* The offset in force at the instant t, by the changes c.
OffsetBy(c, lmt, t) == OffsetAfter(c, ChangesUpTo(c, 0, Len(c), t), lmt)

\* The offset in force in zone z at an instant t before its rule applies.
OffsetFromChanges(z, t) == OffsetBy(ZoneChanges(z), LocalMeanTime(z), t)

\* From this year on a zone follows its standard offset and its daylight
\* saving rule.
RulesFrom == 2007

RulesFromDay == DaysBeforeYear(RulesFrom)

StandardOffset(z) ==
    CASE z = NewYork  -> -5 * SecondsPerHour
      [] z = UTC      -> 0
      [] z = Helsinki -> 2 * SecondsPerHour
      [] z = Kolkata  -> 5 * SecondsPerHour + (SecondsPerHour \div 2)

DstRule(z) ==
    CASE z = NewYork  -> "US"
      [] z = UTC      -> "none"
      [] z = Helsinki -> "EU"
      [] z = Kolkata  -> "none"

\* The day of the week of a day number, 0 for Sunday: 1970-01-01 was a
\* Thursday.
DayOfWeek(day) == (day + 4) % 7

\* The day numbers of the last and of the n-th Sunday of month m of year y.
LastSunday(y, m) ==
    LET last == DaysBeforeYear(y) + DaysBeforeMonth(y, m + 1) - 1
    IN  last - DayOfWeek(last)

NthSunday(y, m, n) ==
    LET first == DaysBeforeYear(y) + DaysBeforeMonth(y, m)
    IN  first + ((7 - DayOfWeek(first)) % 7) + 7 * (n - 1)

\* The instants daylight saving time starts and ends in year y.  In the
\* European Union: the last Sundays of March and of October, at 01:00 UTC.
\* In the United States: the second Sunday of March and the first Sunday of
\* November, at 02:00 on the local clock running until then.
DstStart(z, y) ==
    IF DstRule(z) = "EU" THEN Shift(LastSunday(y, 2), SecondsPerHour)
    ELSE Shift(NthSunday(y, 2, 2), 2 * SecondsPerHour - StandardOffset(z))

DstEnd(z, y) ==
    IF DstRule(z) = "EU" THEN Shift(LastSunday(y, 9), SecondsPerHour)
    ELSE Shift(NthSunday(y, 10, 1), SecondsPerHour - StandardOffset(z))

\* Daylight saving time is in force in zone z at the instant t of year y.
InDst(z, y, t) == TimeLeq(DstStart(z, y), t) /\ TimeLt(t, DstEnd(z, y))

\* The zone database: the offset east of UTC, in seconds, in force in zone
\* z at the instant t.
ZoneOffset ==
    [z \in Zones, t \in Instants |->
        IF t.day < RulesFromDay THEN OffsetFromChanges(z, t)
        ELSE IF DstRule(z) = "none" THEN StandardOffset(z)
        ELSE IF InDst(z, YearOfDay(t.day), t) THEN StandardOffset(z) + SecondsPerHour
        ELSE StandardOffset(z)]

OffsetAt(z, t) == ZoneOffset[z, t]

\* The local clock reading of a time value (as the day number and the
\* second of the day that the clock shows), its day number and its time of
\* day.
LocalTime(t) == Shift(t.day, t.sec + OffsetAt(timeZone, t))

LocalDay(t) == LocalTime(t).day

\* The local clock reading l, read with the offset o, is an instant at
\* which the offset o is in force.
Fits(l, o) == OffsetAt(timeZone, Shift(l.day, l.sec - o)) = o

\* The time value of the reading l, given the offsets in force a day before
\* it and a day after it: a reading that names two instants (a repeated
\* hour) is the earlier one, and a reading that names none (a skipped hour)
\* is read with the offset before the change.
Resolve(l, before, after) ==
    IF before = after THEN Shift(l.day, l.sec - before)
    ELSE IF Fits(l, after) /\ (before < after \/ ~Fits(l, before))
         THEN Shift(l.day, l.sec - after)
         ELSE Shift(l.day, l.sec - before)

\* The time value of a local clock reading l.
UtcOfLocal(l) ==
    Resolve(l, OffsetAt(timeZone, Shift(l.day - 1, l.sec)),
               OffsetAt(timeZone, Shift(l.day + 1, l.sec)))

\* The largest year of a Date, with room to spare: a date built from a year
\* beyond it is an Invalid Date.
MaxYear == 300000

\* MakeDate(MakeDay(y, m, d), time of day) read on the local clock, as
\* setMonth and the Date constructor compute it; m and d may lie outside
\* their calendar range and carry into the neighbouring years and months.
LocalDate(y, m, d, tod) ==
    LET yy == y + (m \div 12)
        mm == m % 12
    IN  IF yy < -MaxYear \/ yy > MaxYear THEN InvalidDate
        ELSE TimeClip(UtcOfLocal(Shift(DaysBeforeYear(yy) + DaysBeforeMonth(yy, mm) + (d - 1),
                                       tod)))

\* new Date(y, m, d, ...) in local time, with the time of day in seconds: a
\* year from 0 to 99 stands for 1900 + year.
MakeLocal(y, m, d, tod) == LocalDate(IF 0 <= y /\ y <= 99 THEN 1900 + y ELSE y, m, d, tod)

getFullYear(t) == IF IsInvalid(t) THEN QNaN ELSE QInt(YearOfDay(LocalDay(t)))

getMonth(t) == IF IsInvalid(t) THEN QNaN ELSE QInt(MonthOfDay(LocalDay(t)))

getDate(t) == IF IsInvalid(t) THEN QNaN ELSE QInt(DateOfDay(LocalDay(t)))

\* getHours(), getMinutes() and getSeconds() in one: the local time of day,
\* in seconds.
getTimeOfDay(t) == IF IsInvalid(t) THEN QNaN ELSE QInt(LocalTime(t).sec)

(***************************************************************************)
(* Date strings                                                            *)
(***************************************************************************)
\* An ISO date-only string "YYYY-MM-DD" is the tuple <<YYYY, MM, DD>>; the
\* empty string, like an undefined end, is the empty tuple.
NoEnd == <<>>

\* new Date("YYYY-MM-DD"): a date-only string is read as midnight UTC,
\* whatever the host's time zone.  A month outside 01..12 or a day outside
\* 01..31 makes an Invalid Date, and so does the empty string; a day from 29
\* to 31 that the month lacks carries into the next month.
DateParse(s) ==
    IF s = NoEnd THEN InvalidDate
    ELSE IF s[1] \notin 0..9999 \/ s[2] \notin 1..12 \/ s[3] \notin 1..31 THEN InvalidDate
    ELSE Shift(DaysBeforeYear(s[1]) + DaysBeforeMonth(s[1], s[2] - 1) + (s[3] - 1), 0)

\* toDate(d): every date of the data is a string.
toDate(s) == DateParse(s)

(***************************************************************************)
(* DateMath (the same text in all three files)                             *)
(***************************************************************************)
\* monthDiff with the years left out of the count.
monthDiffWithinYear(a, b) == QSub(getMonth(b), getMonth(a))

\* (b.getFullYear() - a.getFullYear()) * 12 + (b.getMonth() - a.getMonth())
monthDiff(a, b) ==
    QAdd(QTimes(QSub(getFullYear(b), getFullYear(a)), 12), QSub(getMonth(b), getMonth(a)))

\* x = new Date(d); x.setMonth(x.getMonth() + m): the local day of the month
\* and time of day are kept, so a day the target month lacks carries over
\* into the month after it.
addMonths(d, m) ==
    IF IsInvalid(d) THEN InvalidDate
    ELSE LocalDate(getFullYear(d).i, getMonth(d).i + m, getDate(d).i, getTimeOfDay(d).i)

startOfMonth(d) ==
    IF IsInvalid(d) THEN InvalidDate ELSE MakeLocal(getFullYear(d).i, getMonth(d).i, 1, 0)

startOfYear(d) == IF IsInvalid(d) THEN InvalidDate ELSE MakeLocal(getFullYear(d).i, 0, 1, 0)

\* new Date(y, 11, 31, 23, 59, 59, 999): the last instant of the year.
endOfYear(d) ==
    IF IsInvalid(d) THEN InvalidDate ELSE MakeLocal(getFullYear(d).i, 11, 31, SecondsPerDay - 1)

(***************************************************************************)
(* Program constants                                                       *)
(***************************************************************************)
DEFAULTS_laneHeight == 64
DEFAULTS_laneGap == 12
DEFAULTS_pxPerMonth == 20
DEFAULTS_padMonths == 1

NUM_LANES == 3
PX_PER_MONTH == 14
LANE_HEIGHT == 60
LANE_GAP == 5
PAD_MONTHS_part_000 == 5
PAD_MONTHS == 0
RULER_HEIGHT == 40

\* The three copies of the component.
Tsx == "Timeline.tsx"
Part000 == "part_000"
Tailwind == "tailwind.config.js"
Versions == {Tsx, Part000, Tailwind}

\* The lanes, in the order of LaneId, of the default of the lanes prop and of
\* the keys of DATA.
LaneOrder == <<"Work", "School", "Volunteering">>

(***************************************************************************)
(* Bounds and inputs                                                       *)
(***************************************************************************)
\* The largest number of items in the data.
MaxItems == 2

\* The largest padMonths prop passed to the Timeline.tsx component.
MaxPad == 2

\* The padMonths props passed to it: none, the default and the largest.
PadChoices == {0, DEFAULTS_padMonths, MaxPad}

\* The lanes props passed to it (lanes?: LaneId[]), with the default padding:
\* none (the default, all three lanes), the one lane "Work", and no lane.
LaneChoices == {LaneOrder, <<"Work">>, <<>>}

\* The host's zone: west of UTC with the rule of the United States, UTC,
\* east of UTC with the rule of the European Union, and a zone whose offset
\* is not a whole number of hours.
TimeZones == {NewYork, UTC, Helsinki, Kolkata}

\* The date strings of the items: a first of January, the start of the
\* example in the specification, and a day in the last days of a year.
DateStrings == {<<2016, 1, 1>>, <<2020, 5, 1>>, <<2022, 12, 30>>}

\* The data: up to MaxItems items; the i-th item lies in the i-th lane
\* (cyclically).  An end may be absent in every copy: all three test it.
ItemAt(i, s, e) == [start |-> s, end |-> e, lane |-> LaneOrder[((i - 1) % 3) + 1]]

DataSets ==
    UNION { { [i \in 1..n |-> ItemAt(i, ss[i], ee[i])] :
                ss \in [1..n -> DateStrings],
                ee \in [1..n -> DateStrings \cup {NoEnd}] } : n \in 0..MaxItems }

(***************************************************************************)
(* DomainResolver                                                          *)
(***************************************************************************)
RECURSIVE SeqMin(_), SeqMax(_)
SeqMin(s) ==
    IF Len(s) = 1 THEN s[1]
    ELSE LET r == SeqMin(Tail(s)) IN IF TimeLeq(s[1], r) THEN s[1] ELSE r
SeqMax(s) ==
    IF Len(s) = 1 THEN s[1]
    ELSE LET r == SeqMax(Tail(s)) IN IF TimeLeq(r, s[1]) THEN s[1] ELSE r

HasNaN(s) == \E k \in 1..Len(s) : IsInvalid(s[k])

\* new Date(Math.min(...dates.map(Number))): Math.min() of no numbers is
\* Infinity and of a NaN is NaN; new Date of either is an Invalid Date.
DateOfMin(dates) == IF dates = <<>> \/ HasNaN(dates) THEN InvalidDate ELSE SeqMin(dates)

\* new Date(Math.max(...dates.map(Number))), likewise with -Infinity.
DateOfMax(dates) == IF dates = <<>> \/ HasNaN(dates) THEN InvalidDate ELSE SeqMax(dates)

\* pairs.flat(): the pairs' elements in one list.
Flat(pairs) == [k \in 1..(2 * Len(pairs)) |-> pairs[(k + 1) \div 2][2 - (k % 2)]]

\* Timeline.tsx: [toDate(i.start), i.end ? toDate(i.end) : toDate(i.start)]
DatesOfItemTsx(i) ==
    <<toDate(i.start), IF i.end # NoEnd THEN toDate(i.end) ELSE toDate(i.start)>>

\* part_000 and tailwind.config.js: [toDate(start), toDate(end)]
DatesOfItemRecord(i) == <<toDate(i.start), toDate(i.end)>>

PadDomain(dates, pad) ==
    LET min  == DateOfMin(dates)
        max  == DateOfMax(dates)
        minP == addMonths(startOfYear(min), -pad)
        maxP == addMonths(endOfYear(max), pad)
    IN  [min |-> minP, max |-> maxP]

\* domainFromData of Timeline.tsx.
domainFromData(d, pad) == PadDomain(Flat([k \in 1..Len(d) |-> DatesOfItemTsx(d[k])]), pad)

\* domainFromData of part_000 and of tailwind.config.js; Object.values(data)
\* lists the lanes in key order, and the order does not matter to min/max.
domainFromDataRecord(d, pad) == PadDomain(Flat([k \in 1..Len(d) |-> DatesOfItemRecord(d[k])]), pad)

(***************************************************************************)
(* TimeScale                                                               *)
(***************************************************************************)
RECURSIVE YearsLoop(_, _, _)
YearsLoop(y, maxYear, out) ==
    IF QLeq(y, maxYear) THEN YearsLoop(QAdd(y, QInt(1)), maxYear, Append(out, y.i)) ELSE out

\* yearsBetween with the loop ending one year early (y < max.getFullYear()).
yearsBetweenExclusive(min, max) ==
    YearsLoop(getFullYear(min), QSub(getFullYear(max), QInt(1)), <<>>)

yearsBetween(min, max) == YearsLoop(getFullYear(min), getFullYear(max), <<>>)

\* The scale x of SvgTimeline, a closure over the domain's min and the
\* pixels per month: m * px + frac * px.
\* frac = (+d - +monthStart) / (+nextMonth - +monthStart)
Frac(d, monthStart, nextMonth) == QDiv(Elapsed(monthStart, d), Elapsed(monthStart, nextMonth))

\* m * pxPerMonth + frac * pxPerMonth
xOfParts(px, m, frac) == QAdd(QTimes(m, px), QTimes(frac, px))

\* x(d), given the dates it computes on the way: origin = startOfMonth(min),
\* monthStart = startOfMonth(d) and nextMonth = addMonths(monthStart, 1).
xAt(px, d, origin, monthStart, nextMonth) ==
    xOfParts(px, monthDiff(origin, monthStart), Frac(d, monthStart, nextMonth))

\* x(d), given monthStart = startOfMonth(d).
xInMonth(min, px, d, monthStart) ==
    xAt(px, d, startOfMonth(min), monthStart, addMonths(monthStart, 1))

xScale(min, px, d) == xInMonth(min, px, d, startOfMonth(d))

x(d) == xScale(domain.min, pxPerMonth, d)

\* Math.max(1, monthDiff(startOfMonth(min), startOfMonth(max)) + 1)
TotalMonths(min, max) ==
    QMax(QInt(1), QAdd(monthDiff(startOfMonth(min), startOfMonth(max)), QInt(1)))

\* Math.max(800, totalMonths * pxPerMonth)
InnerWidth(months, px) == QMax(QInt(800), QTimes(months, px))

(***************************************************************************)
(* LaneLayoutEngine                                                        *)
(***************************************************************************)
\* DATA of tailwind.config.js: each lane's stored height and yTop.
DATA_height == <<LANE_HEIGHT * 2, LANE_HEIGHT, LANE_HEIGHT * 2>>
DATA_yTop == <<RULER_HEIGHT, LANE_HEIGHT * 2 + RULER_HEIGHT, LANE_HEIGHT * 3 + RULER_HEIGHT>>

\* yTop of the lane at index idx (from 0): 40 + idx * (laneHeight + laneGap)
\* in Timeline.tsx and part_000, lane.yTop in tailwind.config.js.
LaneTop(idx) ==
    IF version = Tailwind THEN DATA_yTop[idx + 1]
    ELSE 40 + idx * (laneHeight + laneGap)

\* The height of the lane's background rect.
LaneBand(idx) == IF version = Tailwind THEN DATA_height[idx + 1] ELSE laneHeight

\* The height of the svg.
CanvasHeight ==
    CASE version = Tsx      -> Len(lanes) * (laneHeight + laneGap) + 60
      [] version = Part000  -> NUM_LANES * (LANE_HEIGHT + LANE_GAP) + 60
      [] version = Tailwind -> RULER_HEIGHT + DATA_height[1] + DATA_height[2] + DATA_height[3]

(***************************************************************************)
(* LayoutModel builder: the primitives                                     *)
(***************************************************************************)
\* The x of the year ruler's entry for year y: x(new Date(y, 0, 1)), plus
\* 100 in Timeline.tsx and part_000.
TickAt(xPos) == IF version = Tailwind THEN xPos ELSE QAdd(xPos, QInt(100))

TickPos(y) == TickAt(x(MakeLocal(y, 0, 1, 0)))

\* The horizontal translate of a bar's group.
BarTranslate == IF version = Tailwind THEN 0 ELSE 100

\* The primitive drawn for an item: tx is the group's horizontal translate,
\* left the rect's x (the circle's cx), w the rect's width.
\* xS is x(s) and xE is x(e): xStart = x(s), xEnd = e ? x(e) : x(s) and
\* w = Math.max(2, xEnd - xStart).
PrimitiveAt(it, xS, xE) ==
    IF version = Tsx /\ it.end = NoEnd
    THEN [kind |-> "circle", item |-> it, tx |-> xS, left |-> QInt(0), w |-> QInt(0)]
    ELSE [kind |-> "rect", item |-> it, tx |-> QInt(BarTranslate), left |-> xS,
          w |-> QMax(QInt(2), QSub(IF it.end # NoEnd THEN xE ELSE xS, xS))]

ItemPrimitive(it) == PrimitiveAt(it, x(toDate(it.start)), x(toDate(it.end)))

ItemsOfLane(lane) == SelectSeq(data, LAMBDA it : it.lane = lane)

LanePrimitives(lane) ==
    LET its == ItemsOfLane(lane) IN [k \in 1..Len(its) |-> ItemPrimitive(its[k])]

(***************************************************************************)
(* One render of SvgTimeline                                               *)
(***************************************************************************)
Init ==
    /\ version \in Versions
    /\ timeZone \in TimeZones
    /\ data \in DataSets
    /\ padMonths \in (CASE version = Tsx      -> PadChoices
                        [] version = Part000  -> {PAD_MONTHS_part_000}
                        [] version = Tailwind -> {PAD_MONTHS})
    /\ lanes \in (IF version = Tsx /\ padMonths = DEFAULTS_padMonths
                  THEN LaneChoices
                  ELSE {LaneOrder})
    /\ laneHeight = (IF version = Tsx THEN DEFAULTS_laneHeight ELSE LANE_HEIGHT)
    /\ laneGap = (IF version = Tsx THEN DEFAULTS_laneGap ELSE LANE_GAP)
    /\ pxPerMonth = (IF version = Tsx THEN DEFAULTS_pxPerMonth ELSE PX_PER_MONTH)
    /\ pc = "start"
    /\ domain = [min |-> InvalidDate, max |-> InvalidDate]
    /\ totalMonths = QInt(0)
    /\ yearTicks = <<>>
    /\ height = 0
    /\ innerWidth = QInt(0)
    /\ tickX = <<>>
    /\ laneTops = <<>>
    /\ laneHeights = <<>>
    /\ prims = <<>>

\* const { min, max } = domainFromData(data, padMonths) in Timeline.tsx.
ResolveDomainTsx ==
    /\ pc = "start"
    /\ version = Tsx
    /\ domain' = domainFromData(data, padMonths)
    /\ pc' = "domain"
    /\ UNCHANGED <<version, timeZone, data, lanes, laneHeight, laneGap, pxPerMonth,
                   padMonths, totalMonths, yearTicks, height, innerWidth, tickX,
                   laneTops, laneHeights, prims>>

\* const { min, max } = domainFromData(data, PAD_MONTHS) in the other two.
ResolveDomainRecord ==
    /\ pc = "start"
    /\ version \in {Part000, Tailwind}
    /\ domain' = domainFromDataRecord(data, padMonths)
    /\ pc' = "domain"
    /\ UNCHANGED <<version, timeZone, data, lanes, laneHeight, laneGap, pxPerMonth,
                   padMonths, totalMonths, yearTicks, height, innerWidth, tickX,
                   laneTops, laneHeights, prims>>

\* totalMonths, yearTicks, height and innerWidth.
Measure ==
    /\ pc = "domain"
    /\ totalMonths' = TotalMonths(domain.min, domain.max)
    /\ yearTicks' = yearsBetween(domain.min, domain.max)
    /\ height' = CanvasHeight
    /\ innerWidth' = InnerWidth(totalMonths', pxPerMonth)
    /\ pc' = "measured"
    /\ UNCHANGED <<version, timeZone, data, lanes, laneHeight, laneGap, pxPerMonth,
                   padMonths, domain, tickX, laneTops, laneHeights, prims>>

\* The year ruler: yearTicks.map(...).  lanes.map(...) follows it; over no
\* lanes it runs no round and the render is complete.
RenderRuler ==
    /\ pc = "measured"
    /\ tickX' = [k \in 1..Len(yearTicks) |-> TickPos(yearTicks[k])]
    /\ pc' = IF lanes = <<>> THEN "done" ELSE "lanes"
    /\ UNCHANGED <<version, timeZone, data, lanes, laneHeight, laneGap, pxPerMonth,
                   padMonths, domain, totalMonths, yearTicks, height, innerWidth,
                   laneTops, laneHeights, prims>>

\* One round of the lanes' map: the lane's group, background and items.
RenderLane ==
    /\ pc = "lanes"
    /\ Len(laneTops) < Len(lanes)
    /\ LET idx == Len(laneTops) IN
        /\ laneTops' = Append(laneTops, LaneTop(idx))
        /\ laneHeights' = Append(laneHeights, LaneBand(idx))
        /\ prims' = prims \o LanePrimitives(lanes[idx + 1])
        /\ pc' = IF idx + 1 = Len(lanes) THEN "done" ELSE "lanes"
    /\ UNCHANGED <<version, timeZone, data, lanes, laneHeight, laneGap, pxPerMonth,
                   padMonths, domain, totalMonths, yearTicks, height, innerWidth, tickX>>

Next ==
    \/ ResolveDomainTsx
    \/ ResolveDomainRecord
    \/ Measure
    \/ RenderRuler
    \/ RenderLane

Spec == Init /\ [][Next]_vars

(***************************************************************************)
(* Properties                                                              *)
(***************************************************************************)
\* The dates the data holds, as domainFromData of the running copy lists them.
RawDates ==
    Flat([k \in 1..Len(data) |->
            IF version = Tsx THEN DatesOfItemTsx(data[k]) ELSE DatesOfItemRecord(data[k])])

DomainValid == ~IsInvalid(domain.min) /\ ~IsInvalid(domain.max)

\* Dates to project: the data's dates, days around the ends of months of
\* different lengths, the first of January of every year of the ruler, and
\* the last instants of standard and of daylight saving time in a year
\* with the first instants after them.
ProbeStrings ==
    DateStrings \cup {<<2020, 1, 31>>, <<2020, 2, 1>>, <<2020, 2, 29>>, <<2020, 3, 1>>,
                      <<2020, 4, 30>>, <<2020, 5, 2>>, <<2021, 2, 28>>}

\* The instant a second before t and the instant a second after it.
SecondBefore(t) == Shift(t.day, t.sec - 1)
SecondAfter(t) == Shift(t.day, t.sec + 1)

ClockChanges ==
    IF DstRule(timeZone) = "none" THEN {}
    ELSE {SecondBefore(DstStart(timeZone, 2020)), DstStart(timeZone, 2020),
          SecondBefore(DstEnd(timeZone, 2020)), DstEnd(timeZone, 2020)}

\* The instants the scale is compared at: UTC midnights and clock changes.
ScaleProbes == {toDate(s) : s \in ProbeStrings} \cup ClockChanges

ProbeDates ==
    ScaleProbes \cup {MakeLocal(yearTicks[k], 0, 1, 0) : k \in 1..Len(yearTicks)}

InDomain(d) == TimeLeq(domain.min, d) /\ TimeLeq(d, domain.max)

\* The shortest month of the calendar: 28 days.
ShortestMonth == 28 * SecondsPerDay

\* What the scale makes of a date d, given the dates x computes on the way
\* (origin = startOfMonth(domain.min), monthStart = startOfMonth(d) and
\* nextMonth = addMonths(monthStart, 1)): x(d), the fraction of d's month
\* that has elapsed and the length of that month in seconds.
ProjectionOf(d, origin, monthStart, nextMonth) ==
    [date  |-> d,
     x     |-> xAt(pxPerMonth, d, origin, monthStart, nextMonth),
     frac  |-> Frac(d, monthStart, nextMonth),
     month |-> Elapsed(monthStart, nextMonth)]

Projection(d, origin, monthStart) ==
    ProjectionOf(d, origin, monthStart, addMonths(monthStart, 1))

ItemEnd(it) == IF it.end # NoEnd THEN toDate(it.end) ELSE toDate(it.start)

\* C2: domain containment: for every non-empty item set and every
\* padMonths >= 0, min <= item.start and max >= (item.end ?? item.start)
\* for every item of the data.
C2_DomainContainment ==
    (pc # "start" /\ data # <<>>) =>
        \A k \in 1..Len(data) :
            /\ TimeLeq(domain.min, toDate(data[k].start))
            /\ TimeLeq(ItemEnd(data[k]), domain.max)

\* C3: yearsBetween yields exactly one entry for each calendar year from
\* min's year through max's year, in increasing order, and the ruler's
\* x-positions of consecutive entries are strictly increasing.
C3_YearTicks ==
    pc \in {"lanes", "done"} =>
        IF DomainValid
        THEN LET lo == getFullYear(domain.min).i
                 hi == getFullYear(domain.max).i
             IN  /\ Len(yearTicks) = hi - lo + 1
                 /\ \A k \in 1..Len(yearTicks) : yearTicks[k] = lo + k - 1
                 /\ Len(tickX) = Len(yearTicks)
                 /\ \A k \in 1..(Len(tickX) - 1) : QLt(tickX[k], tickX[k + 1])
        ELSE yearTicks = <<>> /\ tickX = <<>>

\* C3 happens: a ruler of at least three years has been drawn.
C3_Witness == pc = "done" /\ DomainValid /\ Len(tickX) >= 3

\* C4: for every date d, x(startOfMonth(d)) is exactly
\* monthDiff(startOfMonth(min), startOfMonth(d)) * pxPerMonth; and with
\* pxPerMonth = 14 and a domain beginning at 2016-01-01 the start
\* "2020-05-01", as toDate reads it, projects to exactly 52 * 14 = 728.
C4_MonthStartExact ==
    (pc = "measured" /\ DomainValid) =>
        /\ \A d \in ProbeDates :
            x(startOfMonth(d))
                = QTimes(monthDiff(startOfMonth(domain.min), startOfMonth(d)), pxPerMonth)
        /\ (pxPerMonth = 14 /\ domain.min = MakeLocal(2016, 0, 1, 0))
                => x(toDate(<<2020, 5, 1>>)) = QInt(728)

\* C5: every bar drawn for an item that has an end is at least 2 wide; an
\* item whose end equals its start gets a bar of exactly 2; an item whose
\* end is before its start never gets a zero or negative width.
C5_MinimumBarWidth ==
    \A k \in 1..Len(prims) :
        (prims[k].kind = "rect" /\ prims[k].item.end # NoEnd) =>
            /\ QLeq(QInt(2), prims[k].w)
            /\ prims[k].item.end = prims[k].item.start => prims[k].w = QInt(2)

\* C6: in every copy of the component an item whose end is absent is
\* emitted as a circle and never as a rect, and an item with an end as a rect.
C6_PointOrBar ==
    \A k \in 1..Len(prims) :
        prims[k].kind = (IF prims[k].item.end = NoEnd THEN "circle" ELSE "rect")

\* C7: with no items, domain resolution ends in an explicit error and
\* returns no dates built from Infinity, so no totalMonths, width or tick
\* is ever computed from an invalid domain.
C7_EmptyDataFails ==
    data = <<>> =>
        /\ pc # "start" => DomainValid
        /\ pc \notin {"measured", "lanes", "done"}

RECURSIVE SumSeq(_)
SumSeq(s) == IF s = <<>> THEN 0 ELSE s[1] + SumSeq(Tail(s))

\* The gap between lanes, where the copy uses one.
GapUsed == IF version = Tailwind THEN 0 ELSE laneGap

\* C8: each lane's top is the ruler height (40) plus the heights (and
\* gaps) of the lanes before it; the canvas height is the ruler height plus
\* the sum of the lane heights; the last lane ends at the canvas bottom.
C8_VerticalStacking ==
    pc = "done" =>
        /\ \A k \in 1..Len(laneTops) :
            laneTops[k] = 40 + SumSeq(SubSeq(laneHeights, 1, k - 1)) + (k - 1) * GapUsed
        /\ height = 40 + SumSeq(laneHeights)
        /\ laneTops[Len(laneTops)] + laneHeights[Len(laneTops)] = height

\* C9: monthDiff(d, addMonths(d, n)) = n for every date d and integer n, so
\* domain.min lies in the month padMonths before January of the earliest
\* item's year and domain.max in the month padMonths after December of the
\* latest item's year.
C9_PaddingMonthExact ==
    (pc # "start" /\ DomainValid) =>
        /\ monthDiff(startOfYear(DateOfMin(RawDates)), domain.min) = QInt(-padMonths)
        /\ monthDiff(endOfYear(DateOfMax(RawDates)), domain.max) = QInt(padMonths)

\* The absolute x of a primitive's left edge (a circle's centre) and of its
\* right edge, after the group's translate.
AbsLeft(p) == QAdd(p.tx, p.left)
AbsRight(p) == QAdd(AbsLeft(p), p.w)

\* C10: every item primitive lies horizontally inside the canvas: a bar's
\* left edge is >= 0 and its right edge <= innerWidth, and a point's centre
\* lies in [0, innerWidth].
C10_InsideCanvas ==
    (pc = "done" /\ DomainValid) =>
        \A k \in 1..Len(prims) :
            /\ QLeq(QInt(0), AbsLeft(prims[k]))
            /\ QLeq(AbsRight(prims[k]), innerWidth)

\* C11: one date, one horizontal coordinate: within a render, the ruler
\* entry for the first of January of year Y, the left edge of a bar that
\* starts at that date and the centre of a point at that date all have the
\* same absolute x.
C11_OneDateOneX ==
    (pc = "done" /\ DomainValid) =>
        \A k \in 1..Len(yearTicks), j \in 1..Len(prims) :
            toDate(prims[j].item.start) = MakeLocal(yearTicks[k], 0, 1, 0)
                => AbsLeft(prims[j]) = tickX[k]

====
